---- MODULE Spec2Model ----
(***************************************************************************)
(* A model of src/main.py: one run of the Reddit post collector.           *)
(*                                                                         *)
(*   main -> create_reddit_instance -> list(fetch_posts(...))              *)
(*        -> (no posts: warn, return) | (filename, save_to_json)           *)
(*        -> except Exception: logging.critical                            *)
(*                                                                         *)
(* The external collaborators (the process environment, praw, the clock    *)
(* and the file system) are nondeterministic: every call into them either  *)
(* returns or raises.                                                      *)
(***************************************************************************)
EXTENDS Integers, Sequences, FiniteSets, TLC

(***************************************************************************)
(* Bounds of the model.                                                    *)
(***************************************************************************)
\* longest query drawn from QueryChars (the example query is added to them)
MaxQueryLen == 2
\* most submissions the site holds for a search
MaxResults == 2

\* the default of --limit
DefaultLimit == 100

\* the default of --subreddit
DefaultSubreddit == <<"a", "l", "l">>

(***************************************************************************)
(* Strings are sequences of characters; a character is a one-token string. *)
(* "U+0130" is LATIN CAPITAL LETTER I WITH DOT ABOVE, the one character    *)
(* whose str.lower() is two characters: "i" and the combining dot U+0307.  *)
(***************************************************************************)
QueryChars == {"A", "7", " ", "U+0130"}

HelloWorldQuery == <<"H", "e", "l", "l", "o", " ", "W", "o", "r", "l", "d", "!">>

Queries ==
    UNION {[1..n -> QueryChars] : n \in 0..MaxQueryLen} \cup {HelloWorldQuery}

\* an option of the command line: <<>> when it is not given, <<value>> when it is
SubredditOptions == {<<>>, <<<<"t", "e", "s", "t">>>>, <<<<"A", "s", "k">>>>}

LimitOptions == {<<>>, <<1>>}

Argvs == [query : Queries, subreddit : SubredditOptions, limit : LimitOptions]

\* the command lines tried under every environment
FewArgvs ==
    {[query |-> HelloWorldQuery, subreddit |-> <<<<"t", "e", "s", "t">>>>, limit |-> <<>>],
     [query |-> <<"U+0130", " ">>, subreddit |-> <<>>, limit |-> <<1>>]}

\* str.isalnum() of one character
IsAlnum(c) ==
    c \in {"a", "d", "e", "h", "i", "l", "o", "r", "w",
           "A", "H", "W", "U+0130",
           "0", "1", "2", "3", "4", "5", "6", "7", "8", "9"}

\* str.lower() of one character: a string (U+0130 lowers to two characters)
LowerChar(c) ==
    CASE c = "A" -> <<"a">>
      [] c = "H" -> <<"h">>
      [] c = "W" -> <<"w">>
      [] c = "U+0130" -> <<"i", "U+0307">>
      [] OTHER -> <<c>>

\* str.lower()
RECURSIVE Lower(_)
Lower(s) ==
    IF s = <<>> THEN <<>> ELSE LowerChar(Head(s)) \o Lower(Tail(s))

\* str.replace(" ", "_")
ReplaceSpace(s) ==
    [i \in 1..Len(s) |-> IF s[i] = " " THEN "_" ELSE s[i]]

\* SafeQuery with the call of lower() left out
SafeQueryNoLower(query) ==
    LET t == ReplaceSpace(query)
    IN  [i \in 1..Len(t) |-> IF IsAlnum(t[i]) THEN t[i] ELSE "_"]

\* "".join(c if c.isalnum() else "_" for c in query.lower().replace(" ", "_"))
SafeQuery(query) ==
    LET t == ReplaceSpace(Lower(query))
    IN  [i \in 1..Len(t) |-> IF IsAlnum(t[i]) THEN t[i] ELSE "_"]

(***************************************************************************)
(* datetime.now().strftime("%Y%m%d-%H%M%S")                                *)
(***************************************************************************)
Clock ==
    {[year |-> 2024, month |-> 1, day |-> 2, hour |-> 3, minute |-> 4, second |-> 5],
     [year |-> 2025, month |-> 12, day |-> 31, hour |-> 23, minute |-> 59, second |-> 50]}

NoTime == [year |-> 0, month |-> 0, day |-> 0, hour |-> 0, minute |-> 0, second |-> 0]

DigitChar(d) == <<"0", "1", "2", "3", "4", "5", "6", "7", "8", "9">>[d + 1]

RECURSIVE Pow10(_)
Pow10(k) == IF k = 0 THEN 1 ELSE 10 * Pow10(k - 1)

\* n in decimal, zero-padded to w digits
Pad(n, w) == [i \in 1..w |-> DigitChar((n \div Pow10(w - i)) % 10)]

Strftime(dt) ==
    Pad(dt.year, 4) \o Pad(dt.month, 2) \o Pad(dt.day, 2) \o <<"-">>
        \o Pad(dt.hour, 2) \o Pad(dt.minute, 2) \o Pad(dt.second, 2)

\* f"{safe_query}_{args.subreddit}_{timestamp}.json"
Filename(query, subreddit, dt) ==
    SafeQuery(query) \o <<"_">> \o subreddit \o <<"_">> \o Strftime(dt)
        \o <<".", "j", "s", "o", "n">>

(***************************************************************************)
(* The environment: os.getenv(var) is None, "" or a value.                 *)
(***************************************************************************)
required_vars ==
    <<"CLIENT_ID", "CLIENT_SECRET", "USER_AGENT", "REDDIT_USERNAME", "REDDIT_PASSWORD">>

RequiredVarSet == {required_vars[i] : i \in 1..Len(required_vars)}

EnvValues == {"absent", "empty", "set"}

\* NotGetenv written as os.getenv(var) is None: an empty value passes
GetenvIsNone(e, var) == e[var] = "absent"

\* not os.getenv(var)
NotGetenv(e, var) == e[var] \in {"absent", "empty"}

\* [var for var in required_vars if not os.getenv(var)]
MissingVars(e) ==
    LET Missing(var) == NotGetenv(e, var)
    IN  SelectSeq(required_vars, Missing)

(***************************************************************************)
(* The submissions the search can yield, and the record made of each.      *)
(***************************************************************************)
NoneObj == [type |-> "NoneType", name |-> "None"]

Submissions ==
    {[id |-> "p1", title |-> "first", selftext |-> "body",
      author |-> [type |-> "Redditor", name |-> "alice"],
      created_utc |-> 1700000000, score |-> 10, url |-> "https://redd.it/p1",
      num_comments |-> 3, subreddit |-> [type |-> "Subreddit", name |-> "python"]],
     [id |-> "p2", title |-> "second", selftext |-> "",
      author |-> NoneObj,
      created_utc |-> 1700000100, score |-> (0 - 2), url |-> "https://redd.it/p2",
      num_comments |-> 0, subreddit |-> [type |-> "Subreddit", name |-> "python"]]}

\* str(obj) of a Redditor, a Subreddit or None
Str(obj) == obj.name

\* the dict yielded for one submission
PostRecord(submission) ==
    [id |-> submission.id,
     title |-> submission.title,
     selftext |-> submission.selftext,
     author |-> Str(submission.author),
     created_utc |-> submission.created_utc,
     score |-> submission.score,
     url |-> submission.url,
     num_comments |-> submission.num_comments,
     subreddit |-> Str(submission.subreddit)]

(***************************************************************************)
(* json.dump(data, f, indent=2, ensure_ascii=False) writes the array as a  *)
(* stream of chunks: the opening bracket, one chunk per element, the       *)
(* closing bracket. A file holds the chunks written before the write ended.*)
(***************************************************************************)
JsonChunks(data) ==
    <<[tok |-> "[", rec |-> <<>>]>>
        \o [i \in 1..Len(data) |-> [tok |-> "object", rec |-> <<data[i]>>]]
        \o <<[tok |-> "]", rec |-> <<>>]>>

NoFile == [exists |-> FALSE, name |-> <<>>, content |-> <<>>]

(***************************************************************************)
(* Exceptions and log records.                                             *)
(***************************************************************************)
NoExc == [type |-> "none", origin |-> "none", detail |-> <<>>]

LogRecord(level, msg) == [level |-> level, msg |-> msg]

NoArgs == [query |-> <<>>, subreddit |-> <<>>, limit |-> 0]

VARIABLES
    env,        \* the process environment after load_dotenv()
    argv,       \* the command line
    args,       \* argparse's namespace: query, subreddit, limit
    pc,         \* the line the run is at
    reddit,     \* main's reddit: "unbound" or "session"
    calls,      \* the functions and external calls invoked so far, in order
    yielded,    \* the submissions the search has yielded so far
    buffer,     \* the records list() has collected from the generator
    posts,      \* main's posts, once list() returned
    now,        \* the clock reading datetime.now() returned
    filename,   \* main's filename
    file,       \* the output file on disk
    log,        \* the log records emitted, in order
    exc,        \* the exception raised in this run, if any
    exit_code   \* the process's exit status: -1 while it runs

vars ==
    <<env, argv, args, pc, reddit, calls, yielded, buffer, posts, now, filename,
      file, log, exc, exit_code>>

\* The check of the environment reads nothing of the command line, so the
\* inputs are drawn in two slices: every environment with a few command
\* lines, and the environment with all five variables set with every command
\* line.
Init ==
    /\ \/ /\ env \in [RequiredVarSet -> EnvValues]
          /\ argv \in FewArgvs
       \/ /\ env = [var \in RequiredVarSet |-> "set"]
          /\ argv \in Argvs
    /\ args = NoArgs
    /\ pc = "parse_args"
    /\ reddit = "unbound"
    /\ calls = <<>>
    /\ yielded = <<>>
    /\ buffer = <<>>
    /\ posts = <<>>
    /\ now = NoTime
    /\ filename = <<>>
    /\ file = NoFile
    /\ log = <<>>
    /\ exc = NoExc
    /\ exit_code = -1

\* args = parser.parse_args()
ParseArgs ==
    /\ pc = "parse_args"
    /\ args' = [query |-> argv.query,
                subreddit |-> IF argv.subreddit = <<>> THEN DefaultSubreddit
                              ELSE argv.subreddit[1],
                limit |-> IF argv.limit = <<>> THEN DefaultLimit ELSE argv.limit[1]]
    /\ pc' = "create_reddit_instance"
    /\ UNCHANGED <<env, argv, reddit, calls, yielded, buffer, posts, now, filename,
                   file, log, exc, exit_code>>

\* an exception leaves the try block of main for its except clause
Raise(type, origin, detail) ==
    /\ exc' = [type |-> type, origin |-> origin, detail |-> detail]
    /\ pc' = "except_main"

(***************************************************************************)
(* create_reddit_instance                                                  *)
(***************************************************************************)
\* the check of the five variables, before the try block
CheckEnv ==
    /\ pc = "create_reddit_instance"
    /\ calls' = Append(calls, "create_reddit_instance")
    /\ IF MissingVars(env) # <<>>
       THEN /\ Raise("ValueError", "config", MissingVars(env))
            /\ UNCHANGED log
       ELSE /\ log' = Append(log, LogRecord("INFO", "Authenticating with Reddit API..."))
            /\ pc' = "praw_reddit"
            /\ UNCHANGED exc
    /\ UNCHANGED <<env, argv, args, reddit, yielded, buffer, posts, now, filename,
                   file, exit_code>>

\* AuthFailed without the raise: the error is logged and the run goes on
AuthFailedNoRaise(origin) ==
    /\ log' = Append(log, LogRecord("ERROR", "Failed to authenticate with Reddit"))
    /\ exc' = [type |-> "PrawException", origin |-> origin, detail |-> <<>>]
    /\ pc' = "fetch_posts"
    /\ UNCHANGED reddit

\* except Exception as e: logging.error(...); raise
AuthFailed(origin) ==
    /\ log' = Append(log, LogRecord("ERROR", "Failed to authenticate with Reddit"))
    /\ Raise("PrawException", origin, <<>>)
    /\ UNCHANGED reddit

\* reddit = praw.Reddit(...)
ConstructReddit ==
    /\ pc = "praw_reddit"
    /\ calls' = Append(calls, "praw.Reddit")
    /\ \/ /\ pc' = "user_me"
          /\ UNCHANGED <<log, exc, reddit>>
       \/ AuthFailed("auth_construct")
    /\ UNCHANGED <<env, argv, args, yielded, buffer, posts, now, filename, file, exit_code>>

\* reddit.user.me(); logging.info(...); return reddit
UserMe ==
    /\ pc = "user_me"
    /\ calls' = Append(calls, "user.me")
    /\ \/ /\ log' = Append(log, LogRecord("INFO", "Authentication successful."))
          /\ reddit' = "session"
          /\ pc' = "fetch_posts"
          /\ UNCHANGED exc
       \/ AuthFailed("auth_me")
    /\ UNCHANGED <<env, argv, args, yielded, buffer, posts, now, filename, file, exit_code>>

(***************************************************************************)
(* posts = list(fetch_posts(reddit, args.query, args.subreddit, args.limit))*)
(***************************************************************************)
\* the generator runs up to its loop: the search is issued
FetchStart ==
    /\ pc = "fetch_posts"
    /\ calls' = calls \o <<"fetch_posts", "subreddit.search">>
    /\ log' = Append(log, LogRecord("INFO", "Searching..."))
    /\ pc' = "for_submission"
    /\ UNCHANGED <<env, argv, args, reddit, yielded, buffer, posts, now, filename,
                   file, exc, exit_code>>

\* FetchNext collecting each record at the front of the list
FetchNextPrepend ==
    /\ pc = "for_submission"
    /\ Len(yielded) < args.limit
    /\ Len(yielded) < MaxResults
    /\ \E submission \in Submissions :
          /\ yielded' = Append(yielded, submission)
          /\ buffer' = <<PostRecord(submission)>> \o buffer
    /\ UNCHANGED <<env, argv, args, pc, reddit, calls, posts, now, filename, file,
                   log, exc, exit_code>>

\* the search yields one more submission; its record is yielded to list()
FetchNext ==
    /\ pc = "for_submission"
    /\ Len(yielded) < args.limit
    /\ Len(yielded) < MaxResults
    /\ \E submission \in Submissions :
          /\ yielded' = Append(yielded, submission)
          /\ buffer' = Append(buffer, PostRecord(submission))
    /\ UNCHANGED <<env, argv, args, pc, reddit, calls, posts, now, filename, file,
                   log, exc, exit_code>>

\* the search is exhausted: list() returns and posts is bound
FetchExhausted ==
    /\ pc = "for_submission"
    /\ posts' = buffer
    /\ pc' = "if_not_posts"
    /\ UNCHANGED <<env, argv, args, reddit, calls, yielded, buffer, now, filename,
                   file, log, exc, exit_code>>

\* FetchFailed without the raise: the generator ends and list() returns the
\* records collected so far
FetchFailedSwallowed ==
    /\ pc = "for_submission"
    /\ log' = Append(log, LogRecord("ERROR", "An error occurred while fetching posts"))
    /\ exc' = [type |-> "PrawException", origin |-> "fetch", detail |-> <<>>]
    /\ posts' = buffer
    /\ pc' = "if_not_posts"
    /\ UNCHANGED <<env, argv, args, reddit, calls, yielded, buffer, now, filename,
                   file, exit_code>>

\* the search raises: logging.error(...); raise. The list being built is lost.
FetchFailed ==
    /\ pc = "for_submission"
    /\ log' = Append(log, LogRecord("ERROR", "An error occurred while fetching posts"))
    /\ buffer' = <<>>
    /\ Raise("PrawException", "fetch", <<>>)
    /\ UNCHANGED <<env, argv, args, reddit, calls, yielded, posts, now, filename,
                   file, exit_code>>

(***************************************************************************)
(* main, after the fetch                                                   *)
(***************************************************************************)
\* NoPosts without the return: main goes on to name and write the file
NoPostsNoReturn ==
    /\ pc = "if_not_posts"
    /\ posts = <<>>
    /\ log' = Append(log, LogRecord("WARNING", "No posts found for the given query. Exiting."))
    /\ \E dt \in Clock :
          /\ now' = dt
          /\ filename' = Filename(args.query, args.subreddit, dt)
    /\ pc' = "save_to_json"
    /\ UNCHANGED <<env, argv, args, reddit, calls, yielded, buffer, posts, file, exc,
                   exit_code>>

\* if not posts: logging.warning(...); return
NoPosts ==
    /\ pc = "if_not_posts"
    /\ posts = <<>>
    /\ log' = Append(log, LogRecord("WARNING", "No posts found for the given query. Exiting."))
    /\ pc' = "return"
    /\ UNCHANGED <<env, argv, args, reddit, calls, yielded, buffer, posts, now,
                   filename, file, exc, exit_code>>

\* timestamp, safe_query and filename
MakeFilename ==
    /\ pc = "if_not_posts"
    /\ posts # <<>>
    /\ \E dt \in Clock :
          /\ now' = dt
          /\ filename' = Filename(args.query, args.subreddit, dt)
    /\ pc' = "save_to_json"
    /\ UNCHANGED <<env, argv, args, reddit, calls, yielded, buffer, posts, file, log,
                   exc, exit_code>>

(***************************************************************************)
(* save_to_json(posts, filename)                                           *)
(***************************************************************************)
\* logging.info(...); open(filename, "w", encoding="utf-8")
SaveOpen ==
    /\ pc = "save_to_json"
    /\ calls' = calls \o <<"save_to_json", "open">>
    /\ \/ /\ log' = Append(log, LogRecord("INFO", "Saving posts..."))
          /\ file' = [exists |-> TRUE, name |-> filename, content |-> <<>>]
          /\ pc' = "json_dump"
          /\ UNCHANGED exc
       \/ /\ log' = log \o <<LogRecord("INFO", "Saving posts..."),
                             LogRecord("ERROR", "Failed to write to file")>>
          /\ Raise("IOError", "storage_open", <<>>)
          /\ UNCHANGED file
    /\ UNCHANGED <<env, argv, args, reddit, yielded, buffer, posts, now, filename,
                   exit_code>>

\* DumpDone with the last chunk never reaching the file
DumpDoneUnflushed ==
    /\ file' = [file EXCEPT !.content =
                   SubSeq(JsonChunks(posts), 1, Len(JsonChunks(posts)) - 1)]
    /\ log' = Append(log, LogRecord("INFO", "Successfully saved data."))
    /\ pc' = "return"
    /\ UNCHANGED exc

\* json.dump completes and the file is closed
DumpDone ==
    /\ file' = [file EXCEPT !.content = JsonChunks(posts)]
    /\ log' = Append(log, LogRecord("INFO", "Successfully saved data."))
    /\ pc' = "return"
    /\ UNCHANGED exc

\* the write raises an IOError after k chunks: except IOError logs and re-raises
DumpIOError ==
    /\ \E k \in 0..Len(JsonChunks(posts)) :
          file' = [file EXCEPT !.content = SubSeq(JsonChunks(posts), 1, k)]
    /\ log' = Append(log, LogRecord("ERROR", "Failed to write to file"))
    /\ Raise("IOError", "storage_write", <<>>)

\* the write raises an exception that is no IOError (a UnicodeEncodeError of a
\* lone surrogate, say) after k chunks: except IOError does not catch it
DumpOtherError ==
    /\ \E k \in 0..Len(JsonChunks(posts)) :
          file' = [file EXCEPT !.content = SubSeq(JsonChunks(posts), 1, k)]
    /\ Raise("UnicodeEncodeError", "storage_write", <<>>)
    /\ UNCHANGED log

\* with open(...) as f: json.dump(data, f, indent=2, ensure_ascii=False)
JsonDump ==
    /\ pc = "json_dump"
    /\ calls' = Append(calls, "json.dump")
    /\ \/ DumpDone
       \/ DumpIOError
       \/ DumpOtherError
    /\ UNCHANGED <<env, argv, args, reddit, yielded, buffer, posts, now, filename,
                   exit_code>>

(***************************************************************************)
(* main's handler and the end of the process                               *)
(***************************************************************************)
\* ExceptMain with an empty handler: nothing is logged
ExceptMainSilent ==
    /\ pc = "except_main"
    /\ pc' = "return"
    /\ UNCHANGED <<env, argv, args, reddit, calls, yielded, buffer, posts, now,
                   filename, file, log, exc, exit_code>>

\* ExceptMain retrying the run once after a failure
ExceptMainRetry ==
    /\ pc = "except_main"
    /\ log' = Append(log, LogRecord("CRITICAL", "A critical error occurred"))
    /\ pc' = IF Cardinality({i \in 1..Len(calls) : calls[i] = "create_reddit_instance"}) < 2
             THEN "create_reddit_instance" ELSE "return"
    /\ UNCHANGED <<env, argv, args, reddit, calls, yielded, buffer, posts, now,
                   filename, file, exc, exit_code>>

\* except (ValueError, Exception) as e: logging.critical(...)
ExceptMain ==
    /\ pc = "except_main"
    /\ log' = Append(log, LogRecord("CRITICAL", "A critical error occurred"))
    /\ pc' = "return"
    /\ UNCHANGED <<env, argv, args, reddit, calls, yielded, buffer, posts, now,
                   filename, file, exc, exit_code>>

\* main() has returned: the interpreter exits with status 0
Exit ==
    /\ pc = "return"
    /\ exit_code' = 0
    /\ pc' = "done"
    /\ UNCHANGED <<env, argv, args, reddit, calls, yielded, buffer, posts, now,
                   filename, file, log, exc>>

Next ==
    \/ ParseArgs
    \/ CheckEnv
    \/ ConstructReddit
    \/ UserMe
    \/ FetchStart
    \/ FetchNext
    \/ FetchExhausted
    \/ FetchFailed
    \/ NoPosts
    \/ MakeFilename
    \/ SaveOpen
    \/ JsonDump
    \/ ExceptMain
    \/ Exit

Spec == Init /\ [][Next]_vars

\* every step of the run is a call that returns or raises, so a run that can
\* take a step does take one
FairSpec == Spec /\ WF_vars(Next)

(***************************************************************************)
(* Vocabulary of the properties.                                           *)
(***************************************************************************)
Invoked(name) == \E i \in 1..Len(calls) : calls[i] = name

Count(name) == Cardinality({i \in 1..Len(calls) : calls[i] = name})

Logged(level) == \E i \in 1..Len(log) : log[i].level = level

LoggedMsg(level, msg) == \E i \in 1..Len(log) : log[i] = [level |-> level, msg |-> msg]

Returned == pc \in {"return", "done"}

\* the level of the last log record
LastLevel == IF log = <<>> THEN "none" ELSE log[Len(log)].level

NineFields ==
    {"id", "title", "selftext", "author", "created_utc", "score", "url",
     "num_comments", "subreddit"}

\* content is the whole JSON array of data: brackets and every element, in order
IsCompleteArray(content, data) ==
    /\ Len(content) = Len(data) + 2
    /\ content[1].tok = "["
    /\ content[Len(content)].tok = "]"
    /\ \A i \in 1..Len(data) :
          content[i + 1].tok = "object" /\ content[i + 1].rec = <<data[i]>>

\* content is what a write of data that stopped early leaves: the opening
\* bracket and the first elements, or nothing
IsPartOfArray(content, data) ==
    /\ Len(content) <= Len(data) + 1
    /\ \A i \in 1..Len(content) :
          IF i = 1 THEN content[i].tok = "["
          ELSE content[i].tok = "object" /\ content[i].rec = <<data[i - 1]>>

AuthFailure == exc.origin \in {"auth_construct", "auth_me"}

\* C1: when authentication fails (praw.Reddit(...) or reddit.user.me() raises),
\* fetch_posts is never invoked, save_to_json is never invoked, no output file
\* is created, and main has logged a critical error by the time it returns.
C1_AuthFailureStopsRun ==
    AuthFailure =>
        /\ ~Invoked("fetch_posts")
        /\ ~Invoked("subreddit.search")
        /\ ~Invoked("save_to_json")
        /\ ~file.exists
        /\ Returned => Logged("CRITICAL")

C1_Witness ==
    /\ exc.origin = "auth_me"
    /\ pc = "done"
    /\ Logged("CRITICAL")

\* C2, as stated: the output file, if it exists after a run, is a complete JSON
\* array of the run's records, also when the write failed part-way.
C2_NoPartialFile ==
    (pc = "done" /\ file.exists) => IsCompleteArray(file.content, posts)

\* C2, amended: the output file, if it exists after a run in which save_to_json
\* did not fail, is the complete JSON array of the run's records; a write that
\* fails after the file was opened leaves the file behind with the part of the
\* array written so far (possibly all of it, possibly nothing).
C2_CompleteUnlessWriteFailed ==
    (Returned /\ file.exists) =>
        /\ file.name = filename
        /\ exc = NoExc => IsCompleteArray(file.content, posts)
        /\ exc # NoExc =>
              /\ exc.origin = "storage_write"
              /\ \/ IsPartOfArray(file.content, posts)
                 \/ IsCompleteArray(file.content, posts)

C2_Witness ==
    /\ pc = "done"
    /\ file.exists
    /\ exc = NoExc
    /\ Len(posts) = 2
    /\ IsCompleteArray(file.content, posts)

\* the partial file the amended C2 speaks of is reached too
C2_PartialWitness ==
    /\ pc = "done"
    /\ file.exists
    /\ exc.origin = "storage_write"
    /\ Len(file.content) = 2
    /\ ~IsCompleteArray(file.content, posts)

\* C3: when the search fails after yielding k >= 0 records, the k records are
\* discarded: save_to_json is never called, no output file is created, the
\* error is logged by fetch_posts and reaches main's handler, which logs it.
C3_FetchFailureDiscards ==
    exc.origin = "fetch" =>
        /\ posts = <<>>
        /\ buffer = <<>>
        /\ ~Invoked("save_to_json")
        /\ ~file.exists
        /\ LoggedMsg("ERROR", "An error occurred while fetching posts")
        /\ pc \in {"except_main", "return", "done"}
        /\ Returned => LastLevel = "CRITICAL"

C3_Witness ==
    /\ exc.origin = "fetch"
    /\ Len(yielded) = 2
    /\ pc = "done"

\* the fetch completed (the search was exhausted) having yielded nothing
FetchedNothing ==
    /\ Invoked("fetch_posts")
    /\ pc # "for_submission"
    /\ exc.origin # "fetch"
    /\ yielded = <<>>

\* C4: when the fetch completes with zero items, main logs a warning, never
\* calls save_to_json, no file is created, and the run ends with no error
\* raised and nothing logged as error or critical.
C4_EmptyResult ==
    FetchedNothing =>
        /\ pc \in {"if_not_posts", "return", "done"}
        /\ ~Invoked("save_to_json")
        /\ ~file.exists
        /\ exc = NoExc
        /\ ~Logged("ERROR")
        /\ ~Logged("CRITICAL")
        /\ Returned => LastLevel = "WARNING"

C4_Witness ==
    /\ FetchedNothing
    /\ pc = "done"
    /\ Logged("WARNING")

\* the required variables that are absent or empty
AbsentOrEmpty == {var \in RequiredVarSet : env[var] # "set"}

\* C5: when a non-empty set S of the five variables is absent or empty,
\* create_reddit_instance fails with a ValueError whose message names exactly
\* the members of S, each once, and no call to the external API is made.
C5_MissingCredentials ==
    AbsentOrEmpty # {} =>
        /\ ~Invoked("praw.Reddit")
        /\ ~Invoked("user.me")
        /\ ~Invoked("subreddit.search")
        /\ Invoked("create_reddit_instance") =>
              /\ exc.type = "ValueError"
              /\ exc.origin = "config"
              /\ {exc.detail[i] : i \in 1..Len(exc.detail)} = AbsentOrEmpty
              /\ Len(exc.detail) = Cardinality(AbsentOrEmpty)

C5_Witness ==
    /\ exc.origin = "config"
    /\ env["CLIENT_SECRET"] = "empty"
    /\ env["REDDIT_PASSWORD"] = "absent"
    /\ env["CLIENT_ID"] = "set"
    /\ Len(exc.detail) = 3
    /\ pc = "done"

\* the fetch completed having yielded at least one item
FetchedSome ==
    /\ pc \in {"if_not_posts", "save_to_json", "json_dump", "except_main", "return", "done"}
    /\ exc.origin # "fetch"
    /\ yielded # <<>>

\* C6: when the search yields N >= 1 items, posts has exactly N records in the
\* order yielded, each with all nine fields taken from its item, and the file
\* save_to_json writes holds that same list in that order.
C6_RecordsInOrder ==
    FetchedSome =>
        /\ Len(posts) = Len(yielded)
        /\ \A i \in 1..Len(posts) :
              /\ DOMAIN posts[i] = NineFields
              /\ posts[i].id = yielded[i].id
              /\ posts[i].title = yielded[i].title
              /\ posts[i].selftext = yielded[i].selftext
              /\ posts[i].author \in {"alice", "None"}
              /\ posts[i].author = "None" <=> yielded[i].author = NoneObj
              /\ posts[i].created_utc = yielded[i].created_utc
              /\ posts[i].score = yielded[i].score
              /\ posts[i].url = yielded[i].url
              /\ posts[i].num_comments = yielded[i].num_comments
              /\ posts[i].subreddit = yielded[i].subreddit.name
        /\ (Returned /\ exc = NoExc) =>
              /\ file.exists
              /\ Len(file.content) = Len(yielded) + 2
              /\ \A i \in 1..Len(yielded) : file.content[i + 1].rec = <<posts[i]>>

C6_Witness ==
    /\ FetchedSome
    /\ pc = "done"
    /\ exc = NoExc
    /\ Len(posts) = 2
    /\ posts[1].id = "p2"
    /\ posts[2].id = "p1"
    /\ file.exists

\* the log ends with a record at ERROR level followed by one at CRITICAL level
EndsWithErrorThenCritical ==
    /\ Len(log) >= 2
    /\ log[Len(log) - 1].level = "ERROR"
    /\ log[Len(log)].level = "CRITICAL"

\* C7, as stated: every error of a run (configuration, authentication, fetch,
\* storage) is logged where it is detected and then logged again as critical
\* by main's handler.
C7_EveryErrorLoggedTwice ==
    (pc = "done" /\ exc # NoExc) => EndsWithErrorThenCritical

\* the errors the code logs in the function that detects them
LoggedWhereDetected ==
    \/ exc.origin \in {"auth_construct", "auth_me", "fetch", "storage_open"}
    \/ exc.origin = "storage_write" /\ exc.type = "IOError"

\* C7, amended: every error of a run reaches main's handler, is logged there
\* as critical, exactly once, and ends the run. Authentication errors, fetch
\* errors and storage errors that are IOErrors are logged at ERROR level
\* where they are detected, right before that; a configuration error (missing
\* credentials), and an exception raised by the write that is no IOError, is
\* not logged where it is detected: main's critical record is its only record.
C7_ErrorsReachHandler ==
    exc # NoExc =>
        /\ pc \in {"except_main", "return", "done"}
        /\ Returned =>
              /\ LastLevel = "CRITICAL"
              /\ Cardinality({i \in 1..Len(log) : log[i].level = "CRITICAL"}) = 1
              /\ LoggedWhereDetected => EndsWithErrorThenCritical
              /\ ~LoggedWhereDetected => ~Logged("ERROR")
        /\ exc.origin = "config" => exc.type = "ValueError"

C7_Witness ==
    /\ pc = "done"
    /\ exc.origin = "config"
    /\ Logged("CRITICAL")
    /\ ~Logged("ERROR")

\* C8: a failure while building the session ends the run with a critical log
\* record and an exit status other than 0, the status of a successful run, and
\* the run does not go on to fetch.
C8_SessionFailureExitsNonZero ==
    (pc = "done" /\ exc.origin \in {"config", "auth_construct", "auth_me"}) =>
        /\ Logged("CRITICAL")
        /\ ~Invoked("fetch_posts")
        /\ exit_code # 0

\* the digit a character stands for
DigitValue(c) == CHOOSE d \in 0..9 : DigitChar(d) = c

IsDigit(c) == \E d \in 0..9 : DigitChar(d) = c

\* the number a string of digits reads as
RECURSIVE Decimal(_)
Decimal(s) ==
    IF s = <<>> THEN 0
    ELSE 10 * Decimal(SubSeq(s, 1, Len(s) - 1)) + DigitValue(s[Len(s)])

\* name is sanitized, "_", the scope, "_", YYYYMMDD-HHMMSS of dt, ".json"
IsOutputName(name, sanitized, scope, dt) ==
    LET n == Len(sanitized)
        m == Len(scope)
        t == n + m + 2
        ts == SubSeq(name, t + 1, t + 15)
    IN  /\ Len(name) = t + 15 + 5
        /\ SubSeq(name, 1, n) = sanitized
        /\ name[n + 1] = "_"
        /\ SubSeq(name, n + 2, n + m + 1) = scope
        /\ name[t] = "_"
        /\ \A i \in (1..15) \ {9} : IsDigit(ts[i])
        /\ ts[9] = "-"
        /\ Decimal(SubSeq(ts, 1, 4)) = dt.year
        /\ Decimal(SubSeq(ts, 5, 6)) = dt.month
        /\ Decimal(SubSeq(ts, 7, 8)) = dt.day
        /\ Decimal(SubSeq(ts, 10, 11)) = dt.hour
        /\ Decimal(SubSeq(ts, 12, 13)) = dt.minute
        /\ Decimal(SubSeq(ts, 14, 15)) = dt.second
        /\ SubSeq(name, t + 16, t + 20) = <<".", "j", "s", "o", "n">>

\* s with each character that is not alphanumeric replaced by one underscore
Underscored(s) == [i \in 1..Len(s) |-> IF IsAlnum(s[i]) THEN s[i] ELSE "_"]

HelloWorldName ==
    <<"h", "e", "l", "l", "o", "_", "w", "o", "r", "l", "d", "_", "_",
      "t", "e", "s", "t", "_",
      "2", "0", "2", "4", "0", "1", "0", "2", "-", "0", "3", "0", "4", "0", "5",
      ".", "j", "s", "o", "n">>

IsHelloWorldRun ==
    /\ args.query = HelloWorldQuery
    /\ args.subreddit = <<"t", "e", "s", "t">>
    /\ now = [year |-> 2024, month |-> 1, day |-> 2, hour |-> 3, minute |-> 4, second |-> 5]

\* C9, as stated: the filename is the lower-cased query with each
\* non-alphanumeric character replaced by one underscore, as long as the query
\* itself, then "_", the scope, "_", the timestamp and ".json".
C9_FilenameSameLength ==
    filename # <<>> =>
        /\ IsOutputName(filename, Underscored(Lower(args.query)), args.subreddit, now)
        /\ Len(filename) = Len(args.query) + 1 + Len(args.subreddit) + 1 + 15 + 5
        /\ IsHelloWorldRun => filename = HelloWorldName

\* C9, amended: the filename is the lower-cased query with each
\* non-alphanumeric character replaced by one underscore, as long as the
\* lower-cased query (which is one character longer than the query for each
\* U+0130 in it, and as long as the query otherwise), then "_", the scope
\* unchanged, "_", the YYYYMMDD-HHMMSS timestamp and ".json".
C9_Filename ==
    filename # <<>> =>
        LET lowered == Lower(args.query)
            dotted == {i \in 1..Len(args.query) : args.query[i] = "U+0130"}
        IN  /\ IsOutputName(filename, Underscored(lowered), args.subreddit, now)
            /\ Len(lowered) = Len(args.query) + Cardinality(dotted)
            /\ Len(filename) = Len(lowered) + 1 + Len(args.subreddit) + 1 + 15 + 5
            /\ \A i \in 1..Len(lowered) : filename[i] # " " /\ filename[i] # "A"
            /\ IsHelloWorldRun => filename = HelloWorldName

C9_Witness ==
    /\ IsHelloWorldRun
    /\ filename = HelloWorldName
    /\ pc = "done"
    /\ file.exists

\* the query whose lower-cased form is longer than it is reaches a filename too
C9_DottedWitness ==
    /\ pc = "done"
    /\ filename # <<>>
    /\ args.query = <<"U+0130", " ">>
    /\ SubSeq(filename, 1, 4) = <<"i", "_", "_", "_">>

\* the state of the run, in the words of the run's state machine
Phase ==
    CASE pc \in {"parse_args", "create_reddit_instance", "praw_reddit", "user_me"} -> "Start"
      [] pc \in {"fetch_posts", "for_submission"} -> "Authenticated"
      [] pc = "if_not_posts" -> "Fetched"
      [] pc \in {"save_to_json", "json_dump"} -> "NonEmpty"
      [] pc = "except_main" -> "Failed"
      [] pc = "return" -> IF exc # NoExc THEN "Failed"
                          ELSE IF posts = <<>> THEN "Empty" ELSE "Written"
      [] pc = "done" -> "Done"

PhaseEdges ==
    {<<"Start", "Authenticated">>, <<"Authenticated", "Fetched">>,
     <<"Fetched", "Empty">>, <<"Fetched", "NonEmpty">>, <<"NonEmpty", "Written">>,
     <<"Empty", "Done">>, <<"Written", "Done">>, <<"Failed", "Done">>,
     <<"Start", "Failed">>, <<"Authenticated", "Failed">>, <<"Fetched", "Failed">>,
     <<"NonEmpty", "Failed">>}

AtMostOnce ==
    /\ Count("create_reddit_instance") <= 1
    /\ Count("praw.Reddit") <= 1
    /\ Count("user.me") <= 1
    /\ Count("fetch_posts") <= 1
    /\ Count("subreddit.search") <= 1
    /\ Count("save_to_json") <= 1
    /\ Count("open") <= 1
    /\ Count("json.dump") <= 1

\* the file is opened only once the search was exhausted and posts holds all
\* of what it yielded
WrittenAfterFetch ==
    Invoked("open") =>
        /\ Phase \in {"NonEmpty", "Written", "Failed", "Done"}
        /\ Len(posts) = Len(yielded)
        /\ posts # <<>>

\* C10: a run goes Start -> Authenticated -> Fetched -> (Empty -> Done) |
\* (NonEmpty -> Written -> Done), with Failed -> Done from any step; it never
\* goes back, authenticates, searches and writes at most once, writes only
\* after the search was exhausted, and eventually reaches Done.
C10_LinearRun ==
    /\ [](AtMostOnce /\ WrittenAfterFetch)
    /\ [][Phase' = Phase \/ <<Phase, Phase'>> \in PhaseEdges]_vars
    /\ <>(pc = "done")

C10_Witness ==
    /\ Phase = "Done"
    /\ exc = NoExc
    /\ file.exists
    /\ Count("user.me") = 1
    /\ Count("subreddit.search") = 1
    /\ Count("json.dump") = 1

====
